---- MODULE Spec2Model ----
(***************************************************************************)
(* Closed-form valuation of equity and debt under continuous-time         *)
(* structural models (continuous_time_models.py) and the reporting script *)
(* that drives it (example.py).                                           *)
(*                                                                         *)
(* Numbers are binary floating-point values with a significand of         *)
(* Precision bits, round-to-nearest-even, signed zeros, infinities and    *)
(* NaN.  The exponent is unbounded: overflow and underflow to zero are    *)
(* not modelled.  Every number carries the library that owns it: "py" (a  *)
(* plain Python int/float) or "np" (a numpy scalar or an element of a     *)
(* numpy array), because the two differ on division by zero.  An          *)
(* exception raised by the code is the value Raise(name); it propagates   *)
(* through every later operation of the same call.                        *)
(*                                                                         *)
(* The formulas of the source are written as expressions (Add, Mul, Div,  *)
(* Pow, ...) over these values and computed by Eval in Python's order.    *)
(* Powers are computed for integral exponents only; the inputs are chosen *)
(* so that beta2 is -1, -2 or 0 (invariant PowModelled).                  *)
(***************************************************************************)
EXTENDS Integers, Sequences, FiniteSets, TLC

\* Significand bits of the floating-point format (IEEE double has 53).
Precision == 8

----------------------------------------------------------------------------
(* Values *)

Fin(s, m, e, t) == [k |-> "fin", s |-> s, m |-> m, e |-> e, t |-> t]
Zero(s, t) == [k |-> "zero", s |-> s, m |-> 0, e |-> 0, t |-> t]
Inf(s, t) == [k |-> "inf", s |-> s, m |-> 0, e |-> 0, t |-> t]
NaN(t) == [k |-> "nan", s |-> 1, m |-> 0, e |-> 0, t |-> t]
\* an exception in flight; t holds its class name
Raise(x) == [k |-> "raise", s |-> 1, m |-> 0, e |-> 0, t |-> x]
\* a bound method object (self._beta2 without the call)
Method == [k |-> "method", s |-> 1, m |-> 0, e |-> 0, t |-> "py"]
\* Python's None
None == [k |-> "none", s |-> 1, m |-> 0, e |-> 0, t |-> "py"]
\* the result of a real power this model does not compute
Unmodelled == [k |-> "unmodelled", s |-> 1, m |-> 0, e |-> 0, t |-> "np"]

IsNumber(a) == a.k \in {"fin", "zero", "inf", "nan"}
IsObject(a) == a.k \in {"method", "none"}
IsRaise(a) == a.k = "raise"
\* an ordinary number: finite, neither NaN nor an infinity
IsOrdinary(a) == a.k \in {"fin", "zero"}

\* the library of a binary operation's result: numpy wins
Join(a, b) == IF a.t = "np" \/ b.t = "np" THEN "np" ELSE "py"
AsNumpy(a) == IF IsNumber(a) THEN [a EXCEPT !.t = "np"] ELSE a

RECURSIVE BitLen(_)
BitLen(n) == IF n = 0 THEN 0 ELSE 1 + BitLen(n \div 2)

RECURSIVE IPow(_, _)
IPow(m, n) == IF n = 0 THEN 1 ELSE m * IPow(m, n - 1)

\* s * M * 2^E (M > 0, plus a non-zero tail below M when sticky) rounded to
\* Precision bits, ties to even
Round(s, M, E, sticky, t) ==
    LET n == BitLen(M) IN
    IF n <= Precision
    THEN Fin(s, M * 2^(Precision - n), E - (Precision - n), t)
    ELSE LET sh == n - Precision
             q == M \div 2^sh
             r == M % 2^sh
             half == 2^(sh - 1)
             up == r > half \/ (r = half /\ (sticky \/ q % 2 = 1))
             q1 == IF up THEN q + 1 ELSE q
         IN  IF q1 = 2^Precision
             THEN Fin(s, 2^(Precision - 1), E + sh + 1, t)
             ELSE Fin(s, q1, E + sh, t)

\* s * (N * 2^En) / (D * 2^Ed), correctly rounded (N, D > 0)
DivRound(s, N, En, D, Ed, t) ==
    LET j0 == BitLen(D) + Precision + 2 - BitLen(N)
        j == IF j0 > 0 THEN j0 ELSE 0
        Q == (N * 2^j) \div D
        rem == (N * 2^j) % D
    IN  Round(s, Q, En - Ed - j, rem # 0, t)

\* a numeric literal n/d of the source text (0.5, 0.001, 2, ...)
Lit(n, d) ==
    IF n = 0 THEN Zero(1, "py")
    ELSE DivRound(IF n < 0 THEN -1 ELSE 1, IF n < 0 THEN -n ELSE n, 0, d, 0, "py")

\* operands that stop an arithmetic operation before it computes
Stops(a, b) == IsRaise(a) \/ IsRaise(b) \/ IsObject(a) \/ IsObject(b)
                \/ a.k = "unmodelled" \/ b.k = "unmodelled"
Stopped(a, b) ==
    IF IsRaise(a) THEN a
    ELSE IF IsRaise(b) THEN b
    ELSE IF IsObject(a) \/ IsObject(b) THEN Raise("TypeError")
    ELSE Unmodelled

NegOf(a) ==
    IF IsRaise(a) \/ a.k = "unmodelled" THEN a
    ELSE IF IsObject(a) THEN Raise("TypeError")
    ELSE IF a.k = "nan" THEN a
    ELSE [a EXCEPT !.s = -a.s]

\* the exact sum of two finite non-zero values, rounded
AddFin(a, b, t) ==
    LET hi == IF a.e >= b.e THEN a ELSE b
        lo == IF a.e >= b.e THEN b ELSE a
        d == hi.e - lo.e
    IN  IF d > Precision + 2
        THEN [hi EXCEPT !.t = t]
        ELSE LET S == hi.s * hi.m * 2^d + lo.s * lo.m
             IN  IF S = 0 THEN Zero(1, t)
                 ELSE Round(IF S < 0 THEN -1 ELSE 1, IF S < 0 THEN -S ELSE S,
                            lo.e, FALSE, t)

AddOf(a, b) ==
    IF Stops(a, b) THEN Stopped(a, b)
    ELSE LET t == Join(a, b) IN
         IF a.k = "nan" \/ b.k = "nan" THEN NaN(t)
         ELSE IF a.k = "inf" /\ b.k = "inf"
              THEN (IF a.s = b.s THEN Inf(a.s, t) ELSE NaN(t))
         ELSE IF a.k = "inf" THEN Inf(a.s, t)
         ELSE IF b.k = "inf" THEN Inf(b.s, t)
         ELSE IF a.k = "zero" /\ b.k = "zero"
              THEN Zero(IF a.s = -1 /\ b.s = -1 THEN -1 ELSE 1, t)
         ELSE IF a.k = "zero" THEN [b EXCEPT !.t = t]
         ELSE IF b.k = "zero" THEN [a EXCEPT !.t = t]
         ELSE AddFin(a, b, t)

MulOf(a, b) ==
    IF Stops(a, b) THEN Stopped(a, b)
    ELSE LET t == Join(a, b)
             s == a.s * b.s
         IN
         IF a.k = "nan" \/ b.k = "nan" THEN NaN(t)
         ELSE IF (a.k = "inf" /\ b.k = "zero") \/ (a.k = "zero" /\ b.k = "inf")
              THEN NaN(t)
         ELSE IF a.k = "inf" \/ b.k = "inf" THEN Inf(s, t)
         ELSE IF a.k = "zero" \/ b.k = "zero" THEN Zero(s, t)
         ELSE Round(s, a.m * b.m, a.e + b.e, FALSE, t)

\* Python's / raises ZeroDivisionError on a zero divisor; numpy's returns an
\* infinity or NaN (with a RuntimeWarning)
DivOf(a, b) ==
    IF Stops(a, b) THEN Stopped(a, b)
    ELSE LET t == Join(a, b)
             s == a.s * b.s
         IN
         IF b.k = "zero" /\ t = "py" THEN Raise("ZeroDivisionError")
         ELSE IF a.k = "nan" \/ b.k = "nan" THEN NaN(t)
         ELSE IF b.k = "zero"
              THEN (IF a.k = "zero" THEN NaN(t) ELSE Inf(s, t))
         ELSE IF a.k = "inf"
              THEN (IF b.k = "inf" THEN NaN(t) ELSE Inf(s, t))
         ELSE IF b.k = "inf" \/ a.k = "zero" THEN Zero(s, t)
         ELSE DivRound(s, a.m, a.e, b.m, b.e, t)

RECURSIVE ISqrt(_, _, _)
\* the largest root r with r * r <= n, built bit by bit from bit b down
ISqrt(n, r, b) ==
    IF b < 0 THEN r
    ELSE LET c == r + 2^b
         IN  IF c * c <= n THEN ISqrt(n, c, b - 1) ELSE ISqrt(n, r, b - 1)

\* np.sqrt: NaN (with a RuntimeWarning) below zero; the result is a numpy scalar
SqrtOf(a) ==
    IF IsRaise(a) \/ a.k = "unmodelled" THEN a
    ELSE IF IsObject(a) THEN Raise("TypeError")
    ELSE IF a.k = "nan" THEN NaN("np")
    ELSE IF a.k = "zero" THEN Zero(a.s, "np")
    ELSE IF a.s = -1 THEN NaN("np")
    ELSE IF a.k = "inf" THEN Inf(1, "np")
    ELSE LET k == IF (a.e - (Precision + 2)) % 2 = 0
                  THEN Precision + 2 ELSE Precision + 3
             mm == a.m * 2^k
             r == ISqrt(mm, 0, (BitLen(mm) + 1) \div 2)
         IN  Round(1, r, (a.e - k) \div 2, r * r # mm, "np")

\* whether a finite non-zero value is an integer, and that integer's magnitude
IsIntegral(a) == a.e >= 0 \/ (-a.e < Precision /\ a.m % 2^(-a.e) = 0)
IntMagnitude(a) == IF a.e >= 0 THEN a.m * 2^a.e ELSE a.m \div 2^(-a.e)
IsOddInt(a) == a.k = "fin" /\ IsIntegral(a) /\ IntMagnitude(a) % 2 = 1

\* numpy's float64 ** float64 (C pow).  Integral exponents are computed
\* exactly and rounded; a negative base with a non-integral exponent is NaN;
\* a positive base with a non-integral exponent is not computed here.
PowOf(a, b) ==
    IF Stops(a, b) THEN Stopped(a, b)
    ELSE LET sgn == IF a.s = -1 /\ IsOddInt(b) THEN -1 ELSE 1 IN
         IF b.k = "zero" THEN Fin(1, 2^(Precision - 1), -(Precision - 1), "np")
         ELSE IF a.k = "fin" /\ a.s = 1 /\ a.m = 2^(Precision - 1)
                 /\ a.e = -(Precision - 1)
              THEN Fin(1, 2^(Precision - 1), -(Precision - 1), "np")
         ELSE IF a.k = "nan" \/ b.k = "nan" THEN NaN("np")
         ELSE IF b.k = "inf" THEN Unmodelled
         ELSE IF a.k = "zero"
              THEN (IF b.s = -1 THEN Inf(sgn, "np") ELSE Zero(sgn, "np"))
         ELSE IF a.k = "inf"
              THEN (IF b.s = -1 THEN Zero(sgn, "np") ELSE Inf(sgn, "np"))
         ELSE IF ~IsIntegral(b)
              THEN (IF a.s = -1 THEN NaN("np") ELSE Unmodelled)
         ELSE LET n == IntMagnitude(b)
                  M == IPow(a.m, n)
              IN  IF b.s = 1 THEN Round(sgn, M, a.e * n, FALSE, "np")
                  ELSE DivRound(sgn, 1, 0, M, a.e * n, "np")

\* comparisons of numbers (every comparison with NaN is false)
SameNumber(a, b) ==
    /\ IsNumber(a) /\ IsNumber(b) /\ a.k # "nan" /\ b.k # "nan"
    /\ \/ a.k = "zero" /\ b.k = "zero"
       \/ a.k = b.k /\ a.s = b.s /\ a.m = b.m /\ a.e = b.e
IsNegative(a) == a.k \in {"fin", "inf"} /\ a.s = -1
IsPositive(a) == a.k \in {"fin", "inf"} /\ a.s = 1
Less(a, b) ==
    /\ IsNumber(a) /\ IsNumber(b) /\ a.k # "nan" /\ b.k # "nan"
    /\ ~SameNumber(a, b)
    /\ IsNegative(AddOf(a, NegOf(b)))
LessEq(a, b) == SameNumber(a, b) \/ Less(a, b)

----------------------------------------------------------------------------
(* Expressions.  A formula of the source is a tree whose leaves are values;   *)
(* Eval computes it as Python does: operands left to right, each once, the   *)
(* first exception raised being the result.                                   *)

Add(a, b) == [k |-> "+", a |-> a, b |-> b]
Sub(a, b) == [k |-> "-", a |-> a, b |-> b]
Mul(a, b) == [k |-> "*", a |-> a, b |-> b]
Div(a, b) == [k |-> "/", a |-> a, b |-> b]
Pow(a, b) == [k |-> "**", a |-> a, b |-> b]
Neg(a) == [k |-> "neg", a |-> a, b |-> a]
Sqrt(a) == [k |-> "np.sqrt", a |-> a, b |-> a]
\* x ** 2 on a Python float
Square(a) == [k |-> "sq", a |-> a, b |-> a]
\* statement sequencing: an exception raised by an earlier statement wins
Then(first, rest) == [k |-> "then", a |-> first, b |-> rest]

IsValue(e) ==
    e.k \in {"fin", "zero", "inf", "nan", "raise", "method", "none", "unmodelled"}

Apply(op, x, y) ==
    CASE op = "+" -> AddOf(x, y)
      [] op = "-" -> AddOf(x, NegOf(y))
      [] op = "*" -> MulOf(x, y)
      [] op = "/" -> DivOf(x, y)
      [] op = "**" -> PowOf(x, y)
      [] op = "neg" -> NegOf(x)
      [] op = "np.sqrt" -> SqrtOf(x)
      [] op = "sq" -> MulOf(x, x)

RECURSIVE Eval(_)
Eval(e) ==
    IF IsValue(e) THEN e
    ELSE IF e.k = "then"
    THEN CHOOSE v \in {IF IsRaise(x) THEN x ELSE Eval(e.b) : x \in {Eval(e.a)}} : TRUE
    ELSE IF e.k \in {"neg", "np.sqrt", "sq"}
    THEN CHOOSE v \in {Apply(e.k, x, x) : x \in {Eval(e.a)}} : TRUE
    ELSE CHOOSE v \in {Apply(e.k, x, y) : x \in {Eval(e.a)}, y \in {Eval(e.b)}} : TRUE

One == Lit(1, 1)

----------------------------------------------------------------------------
(* class AssetsDynamics *)

AssetsDynamics(drift, volatility, r_free, tau, alpha, q, eta, theta) ==
    [drift |-> drift, volatility |-> volatility, r_free |-> r_free, tau |-> tau,
     alpha |-> alpha, q |-> q, eta |-> eta, theta |-> theta]

\* faulty variant: theta taken to be eta, the bargaining power alone
optimal_theta_without_alpha(drift, volatility, r_free, tau, alpha, q, eta) ==
    AssetsDynamics(drift, volatility, r_free, tau, alpha, q, eta, eta)

debt_renegotation_optimal_theta(drift, volatility, r_free, tau, alpha, q, eta) ==
    LET theta == Eval(Mul(eta, alpha))
    IN  AssetsDynamics(drift, volatility, r_free, tau, alpha, q, eta, theta)

\* faulty variant: the scale (1 - tau) / (r_free - drift) worked out first, in
\* plain Python, and the cash flow multiplied in afterwards
value_scale_first(self, cash_flow) ==
    Mul(cash_flow, Div(Sub(One, self.tau), Sub(self.r_free, self.drift)))

value(self, cash_flow) ==
    Div(Mul(cash_flow, Sub(One, self.tau)), Sub(self.r_free, self.drift))

----------------------------------------------------------------------------
(* class FirmClaimsLiquidation; self is the engine's asset_dynamics *)

\* self._beta2 is named without being called: the exponent is the method object
Liquidation_arrow_debreu_default(self, cash_flow, debt_limit) ==
    Pow(Div(cash_flow, debt_limit), Method)

Liquidation_equity(self, coupon, cash_flow, debt_liquidation) ==
    LET risk_free_debt == Div(coupon, self.r_free)
        pv_cash_flow_no_default ==
            Sub(value(self, cash_flow), Mul(Sub(One, self.tau), risk_free_debt))
        option_to_default ==
            Mul(Liquidation_arrow_debreu_default(self, cash_flow, debt_liquidation),
                Sub(value(self, debt_liquidation),
                    Mul(Sub(One, self.tau), risk_free_debt)))
    IN  Then(risk_free_debt, Sub(pv_cash_flow_no_default, option_to_default))

Liquidation_debt(self, coupon, cash_flow, debt_liquidation) ==
    LET risk_free_debt == Div(coupon, self.r_free)
        debt_change ==
            Mul(Liquidation_arrow_debreu_default(self, cash_flow, debt_liquidation),
                Sub(Mul(Sub(One, self.alpha), value(self, debt_liquidation)),
                    risk_free_debt))
    IN  Add(risk_free_debt, debt_change)

Liquidation_firm(self, coupon, cash_flow, debt_liquidation) ==
    Add(Liquidation_equity(self, coupon, cash_flow, debt_liquidation),
        Liquidation_debt(self, coupon, cash_flow, debt_liquidation))

\* func = - self.firm: unary minus of a bound method
Liquidation_max_coupon(self, cash_flow, debt_liquidation) == Neg(Method)

----------------------------------------------------------------------------
(* class FirmClaimsRenegotiation; self is the engine's asset_dynamics *)

_beta2(self) ==
    LET ratio == Div(self.drift, Square(self.volatility))
    IN  Sub(Sub(Lit(1, 2), ratio),
            Sqrt(Add(Square(Sub(Lit(1, 2), ratio)),
                     Div(Mul(Lit(2, 1), self.r_free), Square(self.volatility)))))

_arrow_debreu_default(self, cash_flow, debt_limit) ==
    Pow(Div(cash_flow, debt_limit), _beta2(self))

debt_renegotiation(self, coupon) ==
    LET risk_free_debt == Div(coupon, self.r_free)
    IN  Then(risk_free_debt,
             Div(Mul(Mul(Sub(self.r_free, self.drift), risk_free_debt), _beta2(self)),
                 Mul(Sub(_beta2(self), One),
                     Sub(One, Mul(Sub(One, self.q), self.theta)))))

\* faulty variant: shareholders' share of the assets left out at the boundary
equity_without_share(self, coupon, cash_flow) ==
    LET risk_free_debt == Div(coupon, self.r_free)
        pv_cash_flow_no_default ==
            Sub(value(self, cash_flow), Mul(Sub(One, self.tau), risk_free_debt))
        option_to_default ==
            Mul(_arrow_debreu_default(self, cash_flow, debt_renegotiation(self, coupon)),
                Sub(value(self, debt_renegotiation(self, coupon)),
                    Mul(Sub(One, self.tau), risk_free_debt)))
    IN  Then(risk_free_debt, Sub(pv_cash_flow_no_default, option_to_default))

equity(self, coupon, cash_flow) ==
    LET risk_free_debt == Div(coupon, self.r_free)
        pv_cash_flow_no_default ==
            Sub(value(self, cash_flow), Mul(Sub(One, self.tau), risk_free_debt))
        option_to_default ==
            Mul(_arrow_debreu_default(self, cash_flow, debt_renegotiation(self, coupon)),
                Sub(Mul(value(self, debt_renegotiation(self, coupon)),
                        Sub(One, Mul(Sub(One, self.q), self.theta))),
                    Mul(Sub(One, self.tau), risk_free_debt)))
    IN  Then(risk_free_debt, Sub(pv_cash_flow_no_default, option_to_default))

\* faulty variant: the loss at the boundary taken with the wrong sign
debt_adding_loss(self, coupon, cash_flow) ==
    LET risk_free_debt == Div(coupon, self.r_free)
        debt_change ==
            Mul(_arrow_debreu_default(self, cash_flow, debt_renegotiation(self, coupon)),
                Sub(Add(Mul(Mul(self.q, Sub(One, self.alpha)),
                            value(self, debt_renegotiation(self, coupon))),
                        Mul(Mul(Sub(One, self.q), Sub(One, self.theta)),
                            value(self, debt_renegotiation(self, coupon)))),
                    risk_free_debt))
    IN  Sub(risk_free_debt, debt_change)

debt(self, coupon, cash_flow) ==
    LET risk_free_debt == Div(coupon, self.r_free)
        debt_change ==
            Mul(_arrow_debreu_default(self, cash_flow, debt_renegotiation(self, coupon)),
                Sub(Add(Mul(Mul(self.q, Sub(One, self.alpha)),
                            value(self, debt_renegotiation(self, coupon))),
                        Mul(Mul(Sub(One, self.q), Sub(One, self.theta)),
                            value(self, debt_renegotiation(self, coupon)))),
                    risk_free_debt))
    IN  Add(risk_free_debt, debt_change)

\* faulty variant: debt subtracted from equity
firm_net_of_debt(self, coupon, cash_flow) ==
    Sub(equity(self, coupon, cash_flow), debt(self, coupon, cash_flow))

firm(self, coupon, cash_flow) ==
    Add(equity(self, coupon, cash_flow), debt(self, coupon, cash_flow))

_obj_max_coupon(self, coupon, cash_flow) ==
    Mul(Lit(-1, 1), firm(self, coupon, cash_flow))

\* x0 = 0.001, which scipy turns into a one-element numpy array
x0 == AsNumpy(Lit(1, 1000))

\* result.x[0] of the OptimizeResult; result.success is not read
max_coupon_result(result) == result.x

----------------------------------------------------------------------------
(* Inputs *)

\* largest coupon of the grid, in quarters
MaxCoupon == 2

\* (drift, volatility, r_free) with beta2 = -1 and with beta2 = -2
DynamicsGrid ==
    { <<Lit(1, 64), Lit(1, 2), Lit(15, 64)>>,
      <<Lit(1, 8), Lit(1, 2), Lit(1, 2)>> }
\* r_free = drift; and a drift so far below zero that the square root absorbs
\* 2 * r_free / volatility^2
DegenerateGrid ==
    { <<Lit(1, 8), Lit(1, 2), Lit(1, 8)>>,
      <<Lit(-1024, 1), Lit(1, 1), Lit(3, 16)>> }
TauGrid == {Lit(0, 1), Lit(1, 4)}
AlphaGrid == {Lit(1, 2), Lit(1, 1)}
QGrid == {Lit(0, 1), Lit(1, 2), Lit(1, 1)}
EtaGrid == {Lit(1, 2), Lit(1, 1)}

CouponGrid == {Lit(n, 4) : n \in -1..MaxCoupon}
CashFlowGrid == {Lit(-1, 1), Lit(0, 1), Lit(1, 16), Lit(1, 1), Lit(4096, 1)}
\* a cash flow is a Python scalar or (an element of) a numpy array
CashFlowInputs == CashFlowGrid \cup {AsNumpy(Lit(-1, 1)), AsNumpy(Lit(1, 1))}
LiquidationGrid == {Lit(0, 1), Lit(1, 16)}

\* what scipy.optimize.minimize may hand back: a point and its success flag
OptimizeResults ==
    [x : {x0, AsNumpy(Lit(1, 4))}, success : BOOLEAN]
NoResult == [x |-> None, success |-> FALSE]

ConstructorCalls ==
    { [via |-> "debt_renegotation_optimal_theta", drift |-> d[1], volatility |-> d[2],
       r_free |-> d[3], tau |-> tau, alpha |-> alpha, q |-> q, eta |-> eta,
       theta |-> None] :
        d \in DynamicsGrid, tau \in TauGrid, alpha \in AlphaGrid,
        q \in QGrid, eta \in EtaGrid }
    \cup
    { [via |-> "debt_renegotation_optimal_theta", drift |-> d[1], volatility |-> d[2],
       r_free |-> d[3], tau |-> Lit(1, 4), alpha |-> Lit(1, 2), q |-> q,
       eta |-> Lit(1, 2), theta |-> None] :
        d \in DegenerateGrid, q \in {Lit(1, 2), Lit(1, 1)} }
    \cup
    { [via |-> "AssetsDynamics", drift |-> d[1], volatility |-> d[2],
       r_free |-> d[3], tau |-> Lit(1, 4), alpha |-> Lit(1, 2), q |-> None,
       eta |-> None, theta |-> None] :
        d \in DynamicsGrid }

Construct(c) ==
    IF c.via = "debt_renegotation_optimal_theta"
    THEN debt_renegotation_optimal_theta(c.drift, c.volatility, c.r_free, c.tau,
                                         c.alpha, c.q, c.eta)
    ELSE AssetsDynamics(c.drift, c.volatility, c.r_free, c.tau, c.alpha,
                        c.q, c.eta, c.theta)

----------------------------------------------------------------------------
(* State *)

VARIABLES
    asset_dynamics,   \* the AssetsDynamics instance both engines refer to
    ctor,             \* how it was constructed, and from which arguments
    pc,               \* "idle", or "running" while a call is being served
    call,             \* the call in progress, or the last one served
    ret,              \* what the last call returned or raised
    opt               \* the OptimizeResult of the last optimizer run

vars == <<asset_dynamics, ctor, pc, call, ret, opt>>

NoCall == [op |-> "none", coupon |-> None, cash_flow |-> None,
           debt_liquidation |-> None]
Request(op, coupon, cash_flow, debt_liquidation) ==
    [op |-> op, coupon |-> coupon, cash_flow |-> cash_flow,
     debt_liquidation |-> debt_liquidation]

Init ==
    /\ ctor \in ConstructorCalls
    /\ asset_dynamics = Construct(ctor)
    /\ pc = "idle"
    /\ call = NoCall
    /\ ret = None
    /\ opt = NoResult

\* coupons a caller passes: its own, or the one max_coupon just returned
Coupons == CouponGrid \cup (IF call.op = "max_coupon" /\ IsNumber(ret) THEN {ret} ELSE {})
\* cash flows a caller passes: its own, or the boundary debt_renegotiation
\* just returned
CashFlows ==
    CashFlowInputs
    \cup (IF call.op = "debt_renegotiation" /\ IsNumber(ret) THEN {ret} ELSE {})
Requests ==
    { Request(op, c, x, None) :
        op \in {"equity", "debt", "firm"}, c \in Coupons, x \in CashFlowInputs }
    \cup { Request(op, call.coupon, x, None) :
        op \in {"equity", "debt", "firm"}, x \in CashFlows \ CashFlowInputs }
    \cup { Request("value", None, x, None) : x \in CashFlows }
    \cup { Request("debt_renegotiation", c, None, None) : c \in Coupons }
    \cup { Request("_beta2", None, None, None) }
    \cup { Request("max_coupon", None, x, None) : x \in CashFlowInputs }
    \cup { Request(op, c, x, l) :
        op \in {"Liquidation_equity", "Liquidation_debt", "Liquidation_firm"},
        c \in {d \in CouponGrid : IsPositive(d)},
        x \in {Lit(1, 16), Lit(1, 1)}, l \in LiquidationGrid }
    \cup { Request("Liquidation_max_coupon", None, Lit(1, 1), l) : l \in LiquidationGrid }

\* the caller starts a call
Call ==
    /\ pc = "idle"
    /\ \E r \in Requests : call' = r
    /\ pc' = "running"
    /\ ret' = None
    /\ opt' = NoResult
    /\ UNCHANGED <<asset_dynamics, ctor>>

\* faulty variant: value() leaves its argument in a field of the instance
Do_value_storing ==
    /\ pc = "running"
    /\ call.op = "value"
    /\ ret' = Eval(value(asset_dynamics, call.cash_flow))
    /\ asset_dynamics' = [asset_dynamics EXCEPT !.tau = call.cash_flow]
    /\ pc' = "idle"
    /\ UNCHANGED <<ctor, call, opt>>

Do_value ==
    /\ pc = "running"
    /\ call.op = "value"
    /\ ret' = Eval(value(asset_dynamics, call.cash_flow))
    /\ pc' = "idle"
    /\ UNCHANGED <<asset_dynamics, ctor, call, opt>>

Do_beta2 ==
    /\ pc = "running"
    /\ call.op = "_beta2"
    /\ ret' = Eval(_beta2(asset_dynamics))
    /\ pc' = "idle"
    /\ UNCHANGED <<asset_dynamics, ctor, call, opt>>

Do_debt_renegotiation ==
    /\ pc = "running"
    /\ call.op = "debt_renegotiation"
    /\ ret' = Eval(debt_renegotiation(asset_dynamics, call.coupon))
    /\ pc' = "idle"
    /\ UNCHANGED <<asset_dynamics, ctor, call, opt>>

Do_equity ==
    /\ pc = "running"
    /\ call.op = "equity"
    /\ ret' = Eval(equity(asset_dynamics, call.coupon, call.cash_flow))
    /\ pc' = "idle"
    /\ UNCHANGED <<asset_dynamics, ctor, call, opt>>

Do_debt ==
    /\ pc = "running"
    /\ call.op = "debt"
    /\ ret' = Eval(debt(asset_dynamics, call.coupon, call.cash_flow))
    /\ pc' = "idle"
    /\ UNCHANGED <<asset_dynamics, ctor, call, opt>>

Do_firm ==
    /\ pc = "running"
    /\ call.op = "firm"
    /\ ret' = Eval(firm(asset_dynamics, call.coupon, call.cash_flow))
    /\ pc' = "idle"
    /\ UNCHANGED <<asset_dynamics, ctor, call, opt>>

\* minimize evaluates the objective at x0 first, where an exception escapes;
\* otherwise it returns some OptimizeResult, of which max_coupon reads x[0]
Do_max_coupon ==
    /\ pc = "running"
    /\ call.op = "max_coupon"
    /\ LET first == Eval(_obj_max_coupon(asset_dynamics, x0, call.cash_flow))
       IN  IF IsRaise(first)
           THEN ret' = first /\ opt' = NoResult
           ELSE \E result \in OptimizeResults :
                    opt' = result /\ ret' = max_coupon_result(result)
    /\ pc' = "idle"
    /\ UNCHANGED <<asset_dynamics, ctor, call>>

Do_Liquidation_equity ==
    /\ pc = "running"
    /\ call.op = "Liquidation_equity"
    /\ ret' = Eval(Liquidation_equity(asset_dynamics, call.coupon, call.cash_flow,
                  call.debt_liquidation))
    /\ pc' = "idle"
    /\ UNCHANGED <<asset_dynamics, ctor, call, opt>>

Do_Liquidation_debt ==
    /\ pc = "running"
    /\ call.op = "Liquidation_debt"
    /\ ret' = Eval(Liquidation_debt(asset_dynamics, call.coupon, call.cash_flow,
                  call.debt_liquidation))
    /\ pc' = "idle"
    /\ UNCHANGED <<asset_dynamics, ctor, call, opt>>

Do_Liquidation_firm ==
    /\ pc = "running"
    /\ call.op = "Liquidation_firm"
    /\ ret' = Eval(Liquidation_firm(asset_dynamics, call.coupon, call.cash_flow,
                  call.debt_liquidation))
    /\ pc' = "idle"
    /\ UNCHANGED <<asset_dynamics, ctor, call, opt>>

Do_Liquidation_max_coupon ==
    /\ pc = "running"
    /\ call.op = "Liquidation_max_coupon"
    /\ ret' = Eval(Liquidation_max_coupon(asset_dynamics, call.cash_flow,
                  call.debt_liquidation))
    /\ pc' = "idle"
    /\ UNCHANGED <<asset_dynamics, ctor, call, opt>>

Next ==
    \/ Call
    \/ Do_value
    \/ Do_beta2
    \/ Do_debt_renegotiation
    \/ Do_equity
    \/ Do_debt
    \/ Do_firm
    \/ Do_max_coupon
    \/ Do_Liquidation_equity
    \/ Do_Liquidation_debt
    \/ Do_Liquidation_firm
    \/ Do_Liquidation_max_coupon

Spec == Init /\ [][Next]_vars

----------------------------------------------------------------------------
(* Properties *)

Served(op) == pc = "idle" /\ call.op = op
ServedOneOf(ops) == pc = "idle" /\ call.op \in ops
Abs(a) == IF IsNumber(a) /\ a.s = -1 THEN NegOf(a) ELSE a
Nought == Lit(0, 1)

\* the renegotiation boundary and the risk-free annuity of the coupon of the call
Boundary == Eval(debt_renegotiation(asset_dynamics, call.coupon))
Annuity == Eval(Div(call.coupon, asset_dynamics.r_free))
\* asset value at that boundary
BoundaryValue == Eval(value(asset_dynamics, Boundary))

\* the parameter domain the valuation formulas are stated for
InDomain ==
    LET a == asset_dynamics IN
    /\ \A f \in {a.drift, a.volatility, a.r_free, a.tau, a.alpha, a.q, a.theta} :
           IsOrdinary(f)
    /\ IsPositive(a.r_free) /\ Less(a.drift, a.r_free) /\ IsPositive(a.volatility)
    /\ LessEq(Nought, a.tau) /\ Less(a.tau, One)
    /\ \A f \in {a.alpha, a.q, a.theta} : LessEq(Nought, f) /\ LessEq(f, One)
    /\ Less(Eval(Mul(Sub(One, a.q), a.theta)), One)

\* every power the engines take is one this model computes
PowModelled == ret.k # "unmodelled"

\* C1: whenever equity(c, x) and debt(c, x) of the renegotiation engine return
\* values, firm(c, x) returns exactly their sum.
C1_FirmIsEquityPlusDebt ==
    Served("firm") =>
        LET e == Eval(equity(asset_dynamics, call.coupon, call.cash_flow))
            d == Eval(debt(asset_dynamics, call.coupon, call.cash_flow))
        IN  (IsNumber(e) /\ IsNumber(d)) => ret = AddOf(e, d)

C1_Witness ==
    /\ Served("firm")
    /\ IsOrdinary(ret) /\ IsPositive(ret)
    /\ IsPositive(Eval(equity(asset_dynamics, call.coupon, call.cash_flow)))
    /\ IsPositive(Eval(debt(asset_dynamics, call.coupon, call.cash_flow)))

\* C2: on valid input (coupon > 0, debt_liquidation > 0, cash_flow >=
\* debt_liquidation) the liquidation engine's equity, debt and firm each return
\* a value, and firm returns equity + debt.
C2_LiquidationAdditive ==
    ( /\ ServedOneOf({"Liquidation_equity", "Liquidation_debt", "Liquidation_firm"})
      /\ IsPositive(call.coupon)
      /\ IsPositive(call.debt_liquidation)
      /\ LessEq(call.debt_liquidation, call.cash_flow) )
    => /\ IsNumber(ret)
       /\ call.op = "Liquidation_firm" =>
              ret = AddOf(Eval(Liquidation_equity(asset_dynamics, call.coupon,
                                   call.cash_flow, call.debt_liquidation)),
                          Eval(Liquidation_debt(asset_dynamics, call.coupon,
                                   call.cash_flow, call.debt_liquidation)))

\* C3: when the optimizer run behind max_coupon ends without converging, the
\* caller sees a failure; max_coupon does not hand back the optimizer's last
\* point as a coupon.
C3_ConvergenceSurfaced ==
    (Served("max_coupon") /\ opt # NoResult /\ ~opt.success) => ~IsNumber(ret)

\* the cases C4 speaks of: r_free = drift and a non-zero cash flow, with the
\* tax rate below one so that cash_flow * (1 - tau) is non-zero too
ZeroDiscountSpread ==
    /\ Served("value")
    /\ SameNumber(asset_dynamics.r_free, asset_dynamics.drift)
    /\ asset_dynamics.r_free.t = "py" /\ asset_dynamics.drift.t = "py"
    /\ asset_dynamics.tau.t = "py" /\ Less(asset_dynamics.tau, One)
    /\ call.cash_flow.k = "fin"

C5_OutOfDomainReported ==
    ( /\ ServedOneOf({"equity", "debt", "firm"})
      /\ IsNumber(call.coupon) /\ IsNumber(call.cash_flow) /\ IsNumber(Boundary)
      /\ LessEq(Boundary, Nought) \/ Less(call.cash_flow, Boundary) )
    => IsRaise(ret)

\* the cases C6 speaks of: parameters in their domain, a positive coupon, a
\* cash flow at or above the coupon's renegotiation boundary
AboveBoundary ==
    /\ Served("debt")
    /\ InDomain
    /\ IsPositive(call.coupon) /\ IsOrdinary(call.coupon)
    /\ IsNumber(call.cash_flow)
    /\ LessEq(Boundary, call.cash_flow)

\* what debtholders recover at the boundary, as debt() computes it
Recovery ==
    LET a == asset_dynamics IN
    Eval(Add(Mul(Mul(a.q, Sub(One, a.alpha)), BoundaryValue),
             Mul(Mul(Sub(One, a.q), Sub(One, a.theta)), BoundaryValue)))

C7_OptimalTheta ==
    ctor.via = "debt_renegotation_optimal_theta" =>
        /\ asset_dynamics.theta = MulOf(ctor.eta, ctor.alpha)
        /\ \A f \in {"drift", "volatility", "r_free", "tau", "alpha", "q", "eta"} :
               asset_dynamics[f] = ctor[f]

C7_Witness ==
    /\ ctor.via = "debt_renegotation_optimal_theta"
    /\ IsPositive(asset_dynamics.theta)
    /\ asset_dynamics.theta # asset_dynamics.eta
    /\ asset_dynamics.theta # asset_dynamics.alpha
    /\ asset_dynamics.q # asset_dynamics.eta
    /\ Served("equity")

\* what a call returns, from its arguments and the constructor's arguments alone
ResultOf(c) ==
    LET a == Construct(ctor) IN
    CASE c.op = "value" -> Eval(value(a, c.cash_flow))
      [] c.op = "_beta2" -> Eval(_beta2(a))
      [] c.op = "debt_renegotiation" -> Eval(debt_renegotiation(a, c.coupon))
      [] c.op = "equity" -> Eval(equity(a, c.coupon, c.cash_flow))
      [] c.op = "debt" -> Eval(debt(a, c.coupon, c.cash_flow))
      [] c.op = "firm" -> Eval(firm(a, c.coupon, c.cash_flow))
      [] c.op = "max_coupon" ->
            LET first == Eval(_obj_max_coupon(a, x0, c.cash_flow))
            IN  IF IsRaise(first) THEN first ELSE max_coupon_result(opt)
      [] OTHER -> ret

C9_Beta2Negative ==
    ( /\ Served("_beta2")
      /\ IsOrdinary(asset_dynamics.drift)
      /\ IsPositive(asset_dynamics.r_free) /\ IsOrdinary(asset_dynamics.r_free)
      /\ IsPositive(asset_dynamics.volatility) /\ IsOrdinary(asset_dynamics.volatility) )
    => IsOrdinary(ret) /\ IsNegative(ret)

\* the cases C10 speaks of: a positive coupon, a positive boundary b, and
\* equity or debt asked for at cash_flow = b
AtBoundary ==
    /\ ServedOneOf({"equity", "debt"})
    /\ IsPositive(call.coupon) /\ IsOrdinary(call.coupon)
    /\ IsPositive(Boundary) /\ IsOrdinary(Boundary)
    /\ SameNumber(call.cash_flow, Boundary)

KernelAtBoundary == Eval(_arrow_debreu_default(asset_dynamics, call.cash_flow, Boundary))
EquitySplit ==
    LET a == asset_dynamics IN Eval(Mul(Mul(Sub(One, a.q), a.theta), BoundaryValue))
DebtSplit ==
    LET a == asset_dynamics IN
    Eval(Mul(Add(Mul(a.q, Sub(One, a.alpha)), Mul(Sub(One, a.q), Sub(One, a.theta))),
             BoundaryValue))
\* sixteen rounding errors of the larger terms equity() and debt() combine
RoundingSlack == Eval(Mul(Lit(1, 2^(Precision - 4)), Add(BoundaryValue, Annuity)))
Within(a, b, slack) ==
    IsOrdinary(a) /\ IsOrdinary(b) /\ LessEq(Abs(AddOf(a, NegOf(b))), slack)

\* C10 (as stated): at cash_flow = b = debt_renegotiation(coupon) > 0 the
\* kernel is 1, equity(coupon, b) = (1 - q) * theta * value(b) and
\* debt(coupon, b) = (q * (1 - alpha) + (1 - q) * (1 - theta)) * value(b).
C10_ValueMatching ==
    AtBoundary =>
        /\ SameNumber(KernelAtBoundary, One)
        /\ call.op = "equity" => SameNumber(ret, EquitySplit)
        /\ call.op = "debt" => SameNumber(ret, DebtSplit)

\* C10 (amended): with parameters in their domain, at cash_flow = b the kernel
\* is exactly 1, and equity(coupon, b) and debt(coupon, b) equal those two
\* splits up to rounding: they differ from them by no more than
\* 16 * 2^-Precision * (value(b) + coupon / r_free).
C10_ValueMatchingRounded ==
    (AtBoundary /\ InDomain) =>
        /\ SameNumber(KernelAtBoundary, One)
        /\ call.op = "equity" => Within(ret, EquitySplit, RoundingSlack)
        /\ call.op = "debt" => Within(ret, DebtSplit, RoundingSlack)

C10_Witness ==
    /\ AtBoundary /\ InDomain
    /\ call.op = "equity"
    /\ IsPositive(ret) /\ IsPositive(EquitySplit)
    /\ Less(asset_dynamics.tau, asset_dynamics.q)
====
